---- MODULE Spec2Model ----
(***************************************************************************)
(* State-machine model of the book-tracking REST API defined by            *)
(* src/api/views.py (the handlers) and src/library/urls.py (the routes).   *)
(* Stored state is the relational store: Book, BookRecord and BookReview   *)
(* rows and the rows of the Book<->User "favorites" through table.  Every  *)
(* request is one action, except Book creation, which is split into its    *)
(* validation and insert steps so that two creates may interleave.         *)
(***************************************************************************)
EXTENDS Integers, Sequences, FiniteSets

(* ------------------------------ bounds --------------------------------- *)
\* rows the store may hold or have held, all tables together
MaxRows == 3
\* the same, for the specification that serves every endpoint at once
MaxSurfaceRows == 2

(* ------------------------------ inputs --------------------------------- *)
Users == {"ann", "root"}
Admins == {"root"}
\* request.user of a request that carries no credentials
Anonymous == "anon"
Requesters == Users \cup {Anonymous}

\* primary keys the largest store may hand out
AllPks == 1..MaxRows

\* titles are sequences of characters, so that substring search is computed
Titles == { <<"A", "b">>, <<"a">> }
Authors == { "x", "y" }
\* query_params.get("search"): None when the parameter is absent
None == [ present |-> FALSE, term |-> << >> ]
Some(s) == [ present |-> TRUE, term |-> s ]
SearchTerms == { << >>, <<"a">>, <<"B">>, <<"a", "B">> }
SearchParams == { None } \cup { Some(s) : s \in SearchTerms }
Notes == { "n0", "n1" }
\* review bodies and full-text search terms are sequences of words
Bodies == { <<"good">>, <<"good", "read">> }
ReviewTerms == { << >>, <<"good">>, <<"read", "good">>, <<"bad">> }
ReviewParams == { None } \cup { Some(s) : s \in ReviewTerms }
Workers == { "w1", "w2" }

SAFE_METHODS == { "GET", "HEAD", "OPTIONS" }

(* ------------------------------ state ---------------------------------- *)
VARIABLES
    books,        \* Book rows: [id, title, author, featured]
    nextBookId,   \* next primary key of the Book table
    records,      \* BookRecord rows: [id, reader, book, note]
    nextRecordId,
    reviews,      \* BookReview rows: [id, reviewed_by, book, body]
    nextReviewId,
    favorites,    \* through table: number of rows per <<user, book id>>
    capacity,     \* rows the store has room for, all tables together
    defaultPermissions,  \* the project's DEFAULT_PERMISSION_CLASSES setting
    workers,      \* Book create requests in flight, one per handler thread
    resp          \* the last response sent

\* primary keys a request path may name: those the store may hand out
BookPks == 1..capacity
RecordPks == 1..capacity
ReviewPks == 1..capacity

vars == << books, nextBookId, records, nextRecordId, reviews, nextReviewId,
           favorites, capacity, defaultPermissions, workers, resp >>

\* everything the relational store holds
Stored == << books, records, reviews, favorites >>

(* --------------------------- pure helpers ------------------------------ *)
\* SQL UPPER() on one character
UpperChar(c) ==
    CASE c = "a" -> "A"
      [] c = "b" -> "B"
      [] OTHER -> c

Upper(s) == [ i \in 1..Len(s) |-> UpperChar(s[i]) ]

\* byte order of the characters (the collation of ORDER BY)
Code(c) ==
    CASE c = "A" -> 65
      [] c = "B" -> 66
      [] c = "a" -> 97
      [] c = "b" -> 98

\* t LIKE '%s%'
Contains(t, s) ==
    \E i \in 0..(Len(t) - Len(s)) : SubSeq(t, i + 1, i + Len(s)) = s

\* title__icontains=s  is  UPPER(title) LIKE UPPER('%s%')
IContainsCaseSensitive(t, s) == Contains(t, s)
IContains(t, s) == Contains(Upper(t), Upper(s))

\* t1 <= t2 in the order of ORDER BY title ASC
TitleLeq(t1, t2) ==
    \/ \E k \in 1..Len(t1) :
          /\ k <= Len(t2)
          /\ \A j \in 1..(k - 1) : t1[j] = t2[j]
          /\ Code(t1[k]) < Code(t2[k])
    \/ /\ Len(t1) <= Len(t2)
       /\ \A j \in 1..Len(t1) : t1[j] = t2[j]

BookById(pk) == CHOOSE b \in books : b.id = pk
BookExists(pk) == \E b \in books : b.id = pk
RecordById(pk) == CHOOSE r \in records : r.id = pk
ReviewById(pk) == CHOOSE r \in reviews : r.id = pk

Ids(rows) == { r.id : r \in rows }

\* the ways of listing book rows S as a sequence of ids
Orderings(S) ==
    { s \in [ 1..Cardinality(S) -> Ids(S) ] :
        \A i, j \in 1..Cardinality(S) : i # j => s[i] # s[j] }

\* .order_by("title"): the listings of S in ascending title order
OrderByTitle(S) ==
    { s \in Orderings(S) :
        \A i, j \in 1..Cardinality(S) :
            i < j => TitleLeq(BookById(s[i]).title, BookById(s[j]).title) }

\* rows of any table listed in primary-key order
RECURSIVE ById(_)
ById(ids) ==
    IF ids = {} THEN << >>
    ELSE LET m == CHOOSE x \in ids : \A y \in ids : x <= y
         IN  << m >> \o ById(ids \ {m})

\* a request body that names no owner and no book
NoOwner == [ owner |-> "", book |-> 0 ]

\* a response, with the request it answers: the operation, request.user, the
\* book key and the object key of the path
Response(op, user, pk, id, status, error, data) ==
    [ op |-> op, user |-> user, pk |-> pk, id |-> id, q |-> None,
      sent |-> NoOwner, status |-> status, error |-> error, data |-> data ]

\* a response together with the query parameter of its request
WithQuery(r, q) == [ r EXCEPT !.q = q ]

\* a response together with the owner and book its request body carried
WithSent(r, owner, book) == [ r EXCEPT !.sent = [ owner |-> owner, book |-> book ] ]

(* --------------------------- access control ---------------------------- *)
AllowAny(u) == TRUE

IsAuthenticated(u) == u # Anonymous

\* write methods need the admin role, read methods only pass through
IsAdminOrReadOnly(u, method) == method \in SAFE_METHODS \/ u \in Admins

\* object-level: write methods need the requester to be the record's reader
IsReaderOrReadOnly(u, method, obj) == method \in SAFE_METHODS \/ obj.reader = u

\* the permission classes of a view that names none: those the project's
\* settings configure, the framework's AllowAny when they configure none
DefaultPermissionClasses(u) ==
    IF defaultPermissions = "IsAuthenticated" THEN IsAuthenticated(u)
    ELSE AllowAny(u)

BookViewSetPermissionsAuthenticatedOnly(u, method) == IsAuthenticated(u)
BookViewSetPermissions(u, method) ==
    IsAuthenticated(u) /\ IsAdminOrReadOnly(u, method)

BookRecordViewSetPermissions(u) == IsAuthenticated(u)

BookReviewListCreatePermissions(u) == IsAuthenticated(u)

BookReviewDetailPermissions(u) == DefaultPermissionClasses(u)

CreateFavoritePermissions(u) == IsAuthenticated(u)

BookReviewSearchPermissions(u) == DefaultPermissionClasses(u)

\* the response of a request the permission classes refuse
Denied(op, u, pk, id) ==
    Response(op, u, pk, id, IF u = Anonymous THEN 401 ELSE 403, "detail", << >>)

NotFound(op, u, pk, id) == Response(op, u, pk, id, 404, "detail", << >>)

(* ------------------------------ Init ----------------------------------- *)
IdleWorker ==
    [ pc |-> "idle", user |-> Anonymous, title |-> << >>, author |-> "",
      featured |-> FALSE, status |-> 0, error |-> "none" ]

Empty ==
    /\ books = {}
    /\ nextBookId = 1
    /\ records = {}
    /\ nextRecordId = 1
    /\ reviews = {}
    /\ nextReviewId = 1
    /\ favorites = [ e \in Users \X AllPks |-> 0 ]
    /\ workers = [ w \in Workers |-> IdleWorker ]
    /\ resp = Response("none", Anonymous, 0, 0, 0, "none", << >>)

\* the settings are not part of the handlers: either configuration may be
\* the deployed one, and only the views that name no permission classes
\* (book-review detail and search) read it
Init ==
    /\ Empty
    /\ capacity = MaxRows
    /\ defaultPermissions = "AllowAny"

InitSurface ==
    /\ Empty
    /\ capacity = MaxSurfaceRows
    /\ defaultPermissions \in { "AllowAny", "IsAuthenticated" }

(* ------------------------- storage constraints ------------------------- *)
RECURSIVE SumOver(_, _)
SumOver(f, D) ==
    IF D = {} THEN 0
    ELSE LET e == CHOOSE x \in D : TRUE IN f[e] + SumOver(f, D \ {e})

\* primary keys handed out so far, and rows of the through table
RowsInserted ==
    (nextBookId - 1) + (nextRecordId - 1) + (nextReviewId - 1)
        + SumOver(favorites, DOMAIN favorites)

\* UNIQUE (title, author) on Book: inserting or updating to `row` is refused
BookUniqueViolation(rows, row) ==
    \E b \in rows :
        b.id # row.id /\ b.title = row.title /\ b.author = row.author

\* UNIQUE (reader, book) on BookRecord
RecordUniqueViolation(rows, row) ==
    \E r \in rows :
        r.id # row.id /\ r.reader = row.reader /\ r.book = row.book

\* ON DELETE CASCADE of the rows that reference a deleted book
CascadeRecords(pk) == { r \in records : r.book # pk }
CascadeReviews(pk) == { r \in reviews : r.book # pk }
CascadeFavorites(pk) ==
    [ e \in DOMAIN favorites |-> IF e[2] = pk THEN 0 ELSE favorites[e] ]

(* ------------------------------ BookViewSet ---------------------------- *)
\* get_queryset: all books, or those whose title contains the search term
\* whatever its case; in both branches ordered by title
BookQuerysetCaseSensitive(search) ==
    OrderByTitle(IF search = None THEN books
                 ELSE { b \in books : IContainsCaseSensitive(b.title, search.term) })
BookQueryset(search) ==
    OrderByTitle(IF search = None THEN books
                 ELSE { b \in books : IContains(b.title, search.term) })

\* GET /api/books[?search=s]
BookList(u, search) ==
    /\ IF ~BookViewSetPermissions(u, "GET")
       THEN resp' = WithQuery(Denied("book_list", u, 0, 0), search)
       ELSE \E s \in BookQueryset(search) :
                resp' = WithQuery(Response("book_list", u, 0, 0, 200, "none", s),
                                  search)
    /\ UNCHANGED << books, nextBookId, records, nextRecordId, reviews,
                    nextReviewId, favorites, capacity, defaultPermissions, workers >>

\* GET /api/books/{pk}
BookRetrieve(u, pk) ==
    /\ resp' = IF ~BookViewSetPermissions(u, "GET")
               THEN Denied("book_retrieve", u, pk, pk)
               ELSE IF ~BookExists(pk)
               THEN NotFound("book_retrieve", u, pk, pk)
               ELSE Response("book_retrieve", u, pk, pk, 200, "none", << pk >>)
    /\ UNCHANGED << books, nextBookId, records, nextRecordId, reviews,
                    nextReviewId, favorites, capacity, defaultPermissions, workers >>

\* GET /api/books/featured
BookFeatured(u) ==
    /\ resp' = IF ~BookViewSetPermissions(u, "GET")
               THEN Denied("book_featured", u, 0, 0)
               ELSE Response("book_featured", u, 0, 0, 200, "none",
                             ById(Ids({ b \in books : b.featured })))
    /\ UNCHANGED << books, nextBookId, records, nextRecordId, reviews,
                    nextReviewId, favorites, capacity, defaultPermissions, workers >>

\* request.user.favorite_books.all()
FavoriteBooks(u) == { pk \in AllPks : favorites[<< u, pk >>] > 0 }

\* GET /api/books/favorites
BookFavorites(u) ==
    /\ resp' = IF ~BookViewSetPermissions(u, "GET")
               THEN Denied("book_favorites", u, 0, 0)
               ELSE Response("book_favorites", u, 0, 0, 200, "none",
                             ById(FavoriteBooks(u)))
    /\ UNCHANGED << books, nextBookId, records, nextRecordId, reviews,
                    nextReviewId, favorites, capacity, defaultPermissions, workers >>

\* the response of create() when the insert raises IntegrityError
BookCreateUncaught(u) ==
    Response("book_create", u, 0, 0, 500, "server_error", << >>)
BookCreateIntegrityError(u) ==
    Response("book_create", u, 0, 0, 400, "error", << >>)

BookCreated(u, pk) == Response("book_create", u, 0, pk, 201, "none", << pk >>)

NewBook(t, a, f) == [ id |-> nextBookId, title |-> t, author |-> a, featured |-> f ]

\* POST /api/books, the whole handler
BookCreate(u, t, a, f) ==
    /\ RowsInserted < capacity
    /\ IF ~BookViewSetPermissions(u, "POST")
       THEN /\ resp' = Denied("book_create", u, 0, 0)
            /\ UNCHANGED << books, nextBookId >>
       ELSE IF BookUniqueViolation(books, NewBook(t, a, f))
       THEN /\ resp' = BookCreateIntegrityError(u)
            /\ UNCHANGED << books, nextBookId >>
       ELSE /\ books' = books \cup { NewBook(t, a, f) }
            /\ nextBookId' = nextBookId + 1
            /\ resp' = BookCreated(u, nextBookId)
    /\ UNCHANGED << records, nextRecordId, reviews, nextReviewId, favorites,
                    capacity, defaultPermissions, workers >>

\* PUT/PATCH /api/books/{pk}; update() does not catch IntegrityError
BookUpdate(u, pk, t, a, f) ==
    /\ IF ~BookViewSetPermissions(u, "PUT")
       THEN /\ resp' = Denied("book_update", u, pk, pk)
            /\ UNCHANGED books
       ELSE IF ~BookExists(pk)
       THEN /\ resp' = NotFound("book_update", u, pk, pk)
            /\ UNCHANGED books
       ELSE LET row == [ id |-> pk, title |-> t, author |-> a, featured |-> f ]
            IN  IF BookUniqueViolation(books, row)
                THEN /\ resp' = Response("book_update", u, pk, pk, 500,
                                         "server_error", << >>)
                     /\ UNCHANGED books
                ELSE /\ books' = (books \ { BookById(pk) }) \cup { row }
                     /\ resp' = Response("book_update", u, pk, pk, 200,
                                         "none", << pk >>)
    /\ UNCHANGED << nextBookId, records, nextRecordId, reviews, nextReviewId,
                    favorites, capacity, defaultPermissions, workers >>

\* DELETE /api/books/{pk}
BookDestroy(u, pk) ==
    /\ IF ~BookViewSetPermissions(u, "DELETE")
       THEN /\ resp' = Denied("book_destroy", u, pk, pk)
            /\ UNCHANGED << books, records, reviews, favorites >>
       ELSE IF ~BookExists(pk)
       THEN /\ resp' = NotFound("book_destroy", u, pk, pk)
            /\ UNCHANGED << books, records, reviews, favorites >>
       ELSE /\ books' = books \ { BookById(pk) }
            /\ records' = CascadeRecords(pk)
            /\ reviews' = CascadeReviews(pk)
            /\ favorites' = CascadeFavorites(pk)
            /\ resp' = Response("book_destroy", u, pk, pk, 204, "none", << >>)
    /\ UNCHANGED << nextBookId, nextRecordId, nextReviewId, capacity, defaultPermissions, workers >>

(* ---------------- BookViewSet.create, step by step --------------------- *)
InFlight == { w \in Workers : workers[w].pc \in { "validate", "save" } }

\* the request is dispatched: authentication and permissions
BookCreateReceive(w, u, t, a, f) ==
    /\ workers[w].pc = "idle"
    /\ RowsInserted + Cardinality(InFlight) < capacity
    /\ IF ~BookViewSetPermissions(u, "POST")
       THEN /\ resp' = Denied("book_create", u, 0, 0)
            /\ workers' = [ workers EXCEPT ![w] =
                   [ IdleWorker EXCEPT !.pc = "done", !.user = u,
                       !.status = resp'.status, !.error = resp'.error ] ]
       ELSE /\ workers' = [ workers EXCEPT ![w] =
                   [ pc |-> "validate", user |-> u, title |-> t, author |-> a,
                     featured |-> f, status |-> 0, error |-> "none" ] ]
            /\ UNCHANGED resp
    /\ UNCHANGED << books, nextBookId, records, nextRecordId, reviews,
                    nextReviewId, favorites, capacity, defaultPermissions >>

\* serializer.is_valid(raise_exception=True) on a well-formed body: the
\* fields are checked one by one and the store is not consulted
BookCreateValidate(w) ==
    /\ workers[w].pc = "validate"
    /\ workers' = [ workers EXCEPT ![w].pc = "save" ]
    /\ UNCHANGED << books, nextBookId, records, nextRecordId, reviews,
                    nextReviewId, favorites, capacity, defaultPermissions,
                    resp >>

\* serializer.save(): the INSERT, and the except clause around it
BookCreateSave(w) ==
    /\ workers[w].pc = "save"
    /\ LET q == workers[w]
           row == NewBook(q.title, q.author, q.featured)
       IN  IF BookUniqueViolation(books, row)
           THEN /\ resp' = BookCreateIntegrityError(q.user)
                /\ UNCHANGED << books, nextBookId >>
           ELSE /\ books' = books \cup { row }
                /\ nextBookId' = nextBookId + 1
                /\ resp' = BookCreated(q.user, nextBookId)
    /\ workers' = [ workers EXCEPT ![w].pc = "done",
                      ![w].status = resp'.status, ![w].error = resp'.error ]
    /\ UNCHANGED << records, nextRecordId, reviews, nextReviewId, favorites, capacity, defaultPermissions >>

NextBooks ==
    \/ \E u \in Requesters, s \in SearchParams : BookList(u, s)
    \/ \E u \in Requesters, pk \in BookPks : BookRetrieve(u, pk)
    \/ \E u \in Requesters : BookFeatured(u)
    \/ \E u \in Requesters : BookFavorites(u)
    \/ \E u \in Requesters, t \in Titles, a \in Authors, f \in BOOLEAN :
          BookCreate(u, t, a, f)
    \/ \E u \in Requesters, pk \in BookPks, t \in Titles, a \in Authors,
          f \in BOOLEAN : BookUpdate(u, pk, t, a, f)
    \/ \E u \in Requesters, pk \in BookPks : BookDestroy(u, pk)

NextRace ==
    \/ \E w \in Workers, u \in Requesters, t \in Titles, a \in Authors,
          f \in BOOLEAN : BookCreateReceive(w, u, t, a, f)
    \/ \E w \in Workers : BookCreateValidate(w)
    \/ \E w \in Workers : BookCreateSave(w)

SpecBooks == Init /\ [][NextBooks]_vars
SpecRace == Init /\ [][NextRace]_vars

(* --------------------------- BookRecordViewSet ------------------------- *)
\* get_queryset: the records of the requester under the book of the path
BookRecordQuerysetAllReaders(u, book_pk) ==
    { r \in records : r.book = book_pk }
BookRecordQueryset(u, book_pk) ==
    { r \in records : r.reader = u /\ r.book = book_pk }

\* GET /api/books/{book_pk}/book_records
RecordList(u, book_pk) ==
    /\ resp' = IF ~BookRecordViewSetPermissions(u)
               THEN Denied("record_list", u, book_pk, 0)
               ELSE Response("record_list", u, book_pk, 0, 200, "none",
                             ById(Ids(BookRecordQueryset(u, book_pk))))
    /\ UNCHANGED << books, nextBookId, records, nextRecordId, reviews,
                    nextReviewId, favorites, capacity, defaultPermissions, workers >>

\* get_object(): the row of the queryset with this key, then the object check
RecordInScope(u, book_pk, pk) ==
    \E r \in BookRecordQueryset(u, book_pk) : r.id = pk

\* GET /api/books/{book_pk}/book_records/{pk}
RecordRetrieve(u, book_pk, pk) ==
    /\ resp' = IF ~BookRecordViewSetPermissions(u)
               THEN Denied("record_retrieve", u, book_pk, pk)
               ELSE IF ~RecordInScope(u, book_pk, pk)
               THEN NotFound("record_retrieve", u, book_pk, pk)
               ELSE IF ~IsReaderOrReadOnly(u, "GET", RecordById(pk))
               THEN Denied("record_retrieve", u, book_pk, pk)
               ELSE Response("record_retrieve", u, book_pk, pk, 200, "none",
                             << pk >>)
    /\ UNCHANGED << books, nextBookId, records, nextRecordId, reviews,
                    nextReviewId, favorites, capacity, defaultPermissions, workers >>

\* perform_create: serializer.save(reader=request.user, book=book) overrides
\* whatever reader and book the body carries
RecordPerformCreateFromBody(u, book_pk, body) ==
    [ id |-> nextRecordId, reader |-> body.reader, book |-> body.book,
      note |-> body.note ]
RecordPerformCreate(u, book_pk, body) ==
    [ id |-> nextRecordId, reader |-> u, book |-> book_pk, note |-> body.note ]

\* the response of create() when the insert raises IntegrityError
RecordCreateUncaught(u, book_pk) ==
    Response("record_create", u, book_pk, 0, 500, "server_error", << >>)
RecordCreateIntegrityError(u, book_pk) ==
    Response("record_create", u, book_pk, 0, 400, "error", << >>)

\* get_object_or_404(Book, pk=book_pk) of the nested create handlers
BookResolvedAlways(book_pk) == TRUE
BookResolved(book_pk) == BookExists(book_pk)

\* POST /api/books/{book_pk}/book_records
RecordCreate(u, book_pk, body) ==
    /\ RowsInserted < capacity
    /\ IF ~BookRecordViewSetPermissions(u)
       THEN /\ resp' = Denied("record_create", u, book_pk, 0)
            /\ UNCHANGED << records, nextRecordId >>
       ELSE IF ~BookResolved(book_pk)
       THEN /\ resp' = NotFound("record_create", u, book_pk, 0)
            /\ UNCHANGED << records, nextRecordId >>
       ELSE IF RecordUniqueViolation(records, RecordPerformCreate(u, book_pk, body))
       THEN /\ resp' = RecordCreateIntegrityError(u, book_pk)
            /\ UNCHANGED << records, nextRecordId >>
       ELSE /\ records' = records \cup { RecordPerformCreate(u, book_pk, body) }
            /\ nextRecordId' = nextRecordId + 1
            /\ resp' = WithSent(Response("record_create", u, book_pk,
                                    nextRecordId, 201, "none", << nextRecordId >>),
                                body.reader, body.book)
    /\ UNCHANGED << books, nextBookId, reviews, nextReviewId, favorites,
                    capacity, defaultPermissions, workers >>

\* PUT/PATCH /api/books/{book_pk}/book_records/{pk}; reader and book are
\* not taken from the body
RecordUpdate(u, book_pk, pk, note) ==
    /\ IF ~BookRecordViewSetPermissions(u)
       THEN /\ resp' = Denied("record_update", u, book_pk, pk)
            /\ UNCHANGED records
       ELSE IF ~RecordInScope(u, book_pk, pk)
       THEN /\ resp' = NotFound("record_update", u, book_pk, pk)
            /\ UNCHANGED records
       ELSE IF ~IsReaderOrReadOnly(u, "PUT", RecordById(pk))
       THEN /\ resp' = Denied("record_update", u, book_pk, pk)
            /\ UNCHANGED records
       ELSE /\ records' = (records \ { RecordById(pk) })
                             \cup { [ RecordById(pk) EXCEPT !.note = note ] }
            /\ resp' = Response("record_update", u, book_pk, pk, 200, "none",
                                << pk >>)
    /\ UNCHANGED << books, nextBookId, nextRecordId, reviews, nextReviewId,
                    favorites, capacity, defaultPermissions, workers >>

\* DELETE /api/books/{book_pk}/book_records/{pk}
RecordDestroy(u, book_pk, pk) ==
    /\ IF ~BookRecordViewSetPermissions(u)
       THEN /\ resp' = Denied("record_destroy", u, book_pk, pk)
            /\ UNCHANGED records
       ELSE IF ~RecordInScope(u, book_pk, pk)
       THEN /\ resp' = NotFound("record_destroy", u, book_pk, pk)
            /\ UNCHANGED records
       ELSE IF ~IsReaderOrReadOnly(u, "DELETE", RecordById(pk))
       THEN /\ resp' = Denied("record_destroy", u, book_pk, pk)
            /\ UNCHANGED records
       ELSE /\ records' = records \ { RecordById(pk) }
            /\ resp' = Response("record_destroy", u, book_pk, pk, 204, "none",
                                << >>)
    /\ UNCHANGED << books, nextBookId, nextRecordId, reviews, nextReviewId,
                    favorites, capacity, defaultPermissions, workers >>

(* ------------------- BookReviewListCreateView and others --------------- *)
\* get_queryset: the reviews of the book of the path
BookReviewQueryset(book_pk) == { r \in reviews : r.book = book_pk }

\* GET /api/books/{book_pk}/reviews
ReviewList(u, book_pk) ==
    /\ resp' = IF ~BookReviewListCreatePermissions(u)
               THEN Denied("review_list", u, book_pk, 0)
               ELSE Response("review_list", u, book_pk, 0, 200, "none",
                             ById(Ids(BookReviewQueryset(book_pk))))
    /\ UNCHANGED << books, nextBookId, records, nextRecordId, reviews,
                    nextReviewId, favorites, capacity, defaultPermissions, workers >>

\* perform_create: serializer.save(reviewed_by=request.user, book=book)
ReviewPerformCreateFromBody(u, book_pk, body) ==
    [ id |-> nextReviewId, reviewed_by |-> body.reviewed_by,
      book |-> body.book, body |-> body.body ]
ReviewPerformCreate(u, book_pk, body) ==
    [ id |-> nextReviewId, reviewed_by |-> u, book |-> book_pk,
      body |-> body.body ]

\* POST /api/books/{book_pk}/reviews
ReviewCreate(u, book_pk, body) ==
    /\ RowsInserted < capacity
    /\ IF ~BookReviewListCreatePermissions(u)
       THEN /\ resp' = Denied("review_create", u, book_pk, 0)
            /\ UNCHANGED << reviews, nextReviewId >>
       ELSE IF ~BookResolved(book_pk)
       THEN /\ resp' = NotFound("review_create", u, book_pk, 0)
            /\ UNCHANGED << reviews, nextReviewId >>
       ELSE /\ reviews' = reviews \cup { ReviewPerformCreate(u, book_pk, body) }
            /\ nextReviewId' = nextReviewId + 1
            /\ resp' = WithSent(Response("review_create", u, book_pk,
                                    nextReviewId, 201, "none", << nextReviewId >>),
                                body.reviewed_by, body.book)
    /\ UNCHANGED << books, nextBookId, records, nextRecordId, favorites,
                    capacity, defaultPermissions, workers >>

ReviewExists(pk) == \E r \in reviews : r.id = pk

\* GET /api/book-reviews/{pk}
ReviewRetrieve(u, pk) ==
    /\ resp' = IF ~BookReviewDetailPermissions(u)
               THEN Denied("review_retrieve", u, 0, pk)
               ELSE IF ~ReviewExists(pk)
               THEN NotFound("review_retrieve", u, 0, pk)
               ELSE Response("review_retrieve", u, 0, pk, 200, "none", << pk >>)
    /\ UNCHANGED << books, nextBookId, records, nextRecordId, reviews,
                    nextReviewId, favorites, capacity, defaultPermissions, workers >>

\* DELETE /api/book-reviews/{pk}
ReviewDestroy(u, pk) ==
    /\ IF ~BookReviewDetailPermissions(u)
       THEN /\ resp' = Denied("review_destroy", u, 0, pk)
            /\ UNCHANGED reviews
       ELSE IF ~ReviewExists(pk)
       THEN /\ resp' = NotFound("review_destroy", u, 0, pk)
            /\ UNCHANGED reviews
       ELSE /\ reviews' = reviews \ { ReviewById(pk) }
            /\ resp' = Response("review_destroy", u, 0, pk, 204, "none", << >>)
    /\ UNCHANGED << books, nextBookId, records, nextRecordId, nextReviewId,
                    favorites, capacity, defaultPermissions, workers >>

\* body__search=term: every word of the term is a word of the body; a term
\* without words matches nothing
SearchMatches(body, term) ==
    /\ term # << >>
    /\ \A i \in 1..Len(term) : \E j \in 1..Len(body) : body[j] = term[i]

\* get_queryset of the search view: query_params.get("search") or ""
BookReviewSearchQueryset(q) ==
    LET search_term == IF q.present /\ q.term # << >> THEN q.term ELSE << >>
    IN  { r \in reviews : SearchMatches(r.body, search_term) }

\* GET /api/book-reviews/search?search=term
ReviewSearch(u, q) ==
    /\ resp' = IF ~BookReviewSearchPermissions(u)
               THEN WithQuery(Denied("review_search", u, 0, 0), q)
               ELSE WithQuery(Response("review_search", u, 0, 0, 200, "none",
                                  ById(Ids(BookReviewSearchQueryset(q)))), q)
    /\ UNCHANGED << books, nextBookId, records, nextRecordId, reviews,
                    nextReviewId, favorites, capacity, defaultPermissions, workers >>

(* --------------------------- CreateFavoriteView ------------------------ *)
\* user.favorite_books.add(book): only a book that is not yet related gets
\* a row of the through table
FavoriteAddAlways(u, pk) ==
    [ favorites EXCEPT ![<< u, pk >>] = @ + 1 ]
FavoriteAdd(u, pk) ==
    IF favorites[<< u, pk >>] > 0 THEN favorites
    ELSE [ favorites EXCEPT ![<< u, pk >>] = 1 ]

\* POST /api/books/{book_pk}/favorites
CreateFavorite(u, book_pk) ==
    /\ RowsInserted < capacity
    /\ IF ~CreateFavoritePermissions(u)
       THEN /\ resp' = Denied("favorite_create", u, book_pk, 0)
            /\ UNCHANGED favorites
       ELSE IF ~BookResolved(book_pk)
       THEN /\ resp' = NotFound("favorite_create", u, book_pk, 0)
            /\ UNCHANGED favorites
       ELSE /\ favorites' = FavoriteAdd(u, book_pk)
            /\ resp' = Response("favorite_create", u, book_pk, 0, 201, "none",
                                << book_pk >>)
    /\ UNCHANGED << books, nextBookId, records, nextRecordId, reviews,
                    nextReviewId, capacity, defaultPermissions, workers >>

(* ------------------------------ requests ------------------------------- *)
\* bodies of the nested create requests, with the owner and the book that the
\* client may put in them
RecordBodies == [ reader : Users, book : BookPks, note : Notes ]
ReviewBodies == [ reviewed_by : Users, book : BookPks, body : Bodies ]

NextRecords ==
    \/ \E u \in Requesters, b \in BookPks : RecordList(u, b)
    \/ \E u \in Requesters, b \in BookPks, pk \in RecordPks :
          RecordRetrieve(u, b, pk)
    \/ \E u \in Requesters, b \in BookPks, body \in RecordBodies :
          RecordCreate(u, b, body)
    \/ \E u \in Requesters, b \in BookPks, pk \in RecordPks, n \in Notes :
          RecordUpdate(u, b, pk, n)
    \/ \E u \in Requesters, b \in BookPks, pk \in RecordPks :
          RecordDestroy(u, b, pk)

NextReviews ==
    \/ \E u \in Requesters, b \in BookPks : ReviewList(u, b)
    \/ \E u \in Requesters, b \in BookPks, body \in ReviewBodies :
          ReviewCreate(u, b, body)
    \/ \E u \in Requesters, pk \in ReviewPks : ReviewRetrieve(u, pk)
    \/ \E u \in Requesters, pk \in ReviewPks : ReviewDestroy(u, pk)
    \/ \E u \in Requesters, q \in ReviewParams : ReviewSearch(u, q)

NextFavorites ==
    \E u \in Requesters, b \in BookPks : CreateFavorite(u, b)

\* the administration of the catalogue that the nested resources depend on
NextCatalogue ==
    \/ \E u \in Users, t \in Titles, a \in Authors : BookCreate(u, t, a, FALSE)
    \/ \E u \in Users, pk \in BookPks : BookDestroy(u, pk)

NextNested ==
    \/ \E u \in Requesters, b \in BookPks, body \in RecordBodies :
          RecordCreate(u, b, body)
    \/ \E u \in Requesters, b \in BookPks, body \in ReviewBodies :
          ReviewCreate(u, b, body)
    \/ \E u \in Requesters, b \in BookPks : CreateFavorite(u, b)

Next == NextBooks \/ NextRecords \/ NextReviews \/ NextFavorites

\* every endpoint of urlpatterns
Spec == InitSurface /\ [][Next]_vars
\* the book records of /api/books/{book_pk}/book_records
SpecRecords == Init /\ [][NextCatalogue \/ NextRecords]_vars
\* the favorites of /api/books/{book_pk}/favorites and /api/books/favorites
SpecFavorites ==
    Init /\ [][NextCatalogue \/ NextFavorites
                  \/ \E u \in Requesters : BookFavorites(u)]_vars
\* the create requests below /api/books/{book_pk}/
SpecNested == Init /\ [][NextCatalogue \/ NextNested]_vars

(* ------------------------------ properties ----------------------------- *)
Authenticated(r) == r.user \in Users

\* definitions for C1
UniqueTitleAuthor ==
    \A b1, b2 \in books :
        (b1.title = b2.title /\ b1.author = b2.author) => b1.id = b2.id

AdminDone(w) == workers[w].pc = "done" /\ workers[w].user \in Admins

SamePair(w1, w2) ==
    /\ workers[w1].title = workers[w2].title
    /\ workers[w1].author = workers[w2].author

Conflict(w) == workers[w].status = 400 /\ workers[w].error = "error"

\* C1: two Book creates by an admin with the same (title, author), however
\* their validation and insert steps interleave, end with exactly one 201
\* and one 400 that carries an "error" payload, no admin create ends in a
\* 500, and no two stored books ever share a (title, author) pair.
C1_ExactlyOneCreateSucceeds ==
    /\ UniqueTitleAuthor
    /\ \A w \in Workers :
          AdminDone(w) => (workers[w].status = 201 \/ Conflict(w))
    /\ \A w1, w2 \in Workers :
          (w1 # w2 /\ AdminDone(w1) /\ AdminDone(w2) /\ SamePair(w1, w2))
              => \/ workers[w1].status = 201 /\ Conflict(w2)
                 \/ workers[w2].status = 201 /\ Conflict(w1)

C1_Witness ==
    /\ AdminDone("w1") /\ AdminDone("w2") /\ SamePair("w1", "w2")
    /\ workers["w1"].status = 201 /\ Conflict("w2")
    /\ Cardinality(books) = 1

\* definitions for C2
UniqueReaderBook ==
    \A r1, r2 \in records :
        (r1.reader = r2.reader /\ r1.book = r2.book) => r1.id = r2.id

HasRecord(u, book_pk) ==
    \E r \in records : r.reader = u /\ r.book = book_pk

RecordCreateOutcome ==
    (resp'.op = "record_create" /\ Authenticated(resp'))
        => /\ HasRecord(resp'.user, resp'.pk)
                => /\ resp'.status = 400 /\ resp'.error = "error"
                   /\ records' = records
           /\ (~HasRecord(resp'.user, resp'.pk) /\ BookExists(resp'.pk))
                => /\ resp'.status = 201
                   /\ Cardinality(records') = Cardinality(records) + 1
                   /\ records \subseteq records'

\* C2: at most one BookRecord exists per (reader, book); a create by a reader
\* who already has a record for the book is answered 400 with the "error"
\* payload and changes no record, and a create for a pair without a record,
\* under an existing book, is answered 201 and adds exactly one record.
C2_OneRecordPerReaderAndBook ==
    []UniqueReaderBook /\ [][RecordCreateOutcome]_vars

C2_Witness ==
    /\ resp.op = "record_create" /\ resp.status = 400 /\ resp.error = "error"
    /\ HasRecord(resp.user, resp.pk)
    /\ Cardinality(records) = 1

\* C3: the BookRecord list and retrieve responses under book B hold only
\* records whose reader is the requester and whose book is B.
C3_OnlyOwnRecordsReturned ==
    (resp.op \in { "record_list", "record_retrieve" } /\ resp.status = 200)
        => \A i \in 1..Len(resp.data) :
              \E r \in records :
                  /\ r.id = resp.data[i]
                  /\ r.reader = resp.user
                  /\ r.book = resp.pk

C3_Witness ==
    /\ resp.op = "record_list" /\ resp.status = 200 /\ Len(resp.data) = 1
    /\ \E r \in records : r.book = resp.pk /\ r.reader # resp.user

\* definitions for C4
UnauthenticatedRefused ==
    (resp'.user = Anonymous /\ resp'.op # "none")
        => resp'.status = 401 /\ Stored' = Stored

\* C4: a request without credentials, to whichever endpoint, is answered
\* with the authentication error and changes nothing that is stored.
C4_UnauthenticatedRequestsFail == [][UnauthenticatedRefused]_vars

\* the same, for the views that name IsAuthenticated themselves
DefaultedOps == { "review_retrieve", "review_destroy", "review_search" }

DeclaredViewsRefuseUnauthenticated ==
    [][(resp'.user = Anonymous /\ resp'.op \notin DefaultedOps \cup { "none" })
          => resp'.status = 401 /\ Stored' = Stored]_vars

\* definitions for C5
BookWrites == { "book_create", "book_update", "book_destroy" }
BookLists == { "book_list", "book_featured", "book_favorites" }

NonAdminBookAccess ==
    (Authenticated(resp') /\ resp'.user \notin Admins)
        => /\ resp'.op \in BookWrites
                => resp'.status = 403 /\ Stored' = Stored
           /\ resp'.op \in BookLists => resp'.status = 200
           /\ resp'.op = "book_retrieve"
                => resp'.status = IF BookExists(resp'.pk) THEN 200 ELSE 404

\* C5: for a user without the admin role, Book create, update and delete are
\* answered with the authorization error and change no book, while list,
\* featured, favorites and retrieve are served.
C5_NonAdminCannotWriteBooks == [][NonAdminBookAccess]_vars

C5_Witness ==
    /\ resp.op = "book_destroy" /\ resp.user \notin Admins /\ resp.status = 403
    /\ BookExists(resp.pk)

\* definitions for C6
FavoriteAdded ==
    (resp'.op = "favorite_create" /\ Authenticated(resp') /\ BookExists(resp'.pk))
        => /\ resp'.status = 201
           /\ favorites'[<< resp'.user, resp'.pk >>] = 1
           /\ \A e \in DOMAIN favorites :
                 e # << resp'.user, resp'.pk >> => favorites'[e] = favorites[e]

\* C6: a favorite POST for an existing book is answered 201 and leaves
\* exactly one row for (requester, book), whether or not the book was a
\* favorite already, and touches the rows of no other user or book.
C6_FavoriteIsIdempotent ==
    [](\A e \in DOMAIN favorites : favorites[e] <= 1) /\ [][FavoriteAdded]_vars

C6_Witness ==
    /\ resp.op = "favorite_create" /\ resp.status = 201
    /\ favorites[<< resp.user, resp.pk >>] = 1
    /\ \E e \in DOMAIN favorites : e[1] # resp.user /\ favorites[e] = 1

\* definitions for C7
RecordDetailOps == { "record_retrieve", "record_update", "record_destroy" }
RecordOps == RecordDetailOps \cup { "record_list", "record_create" }

OnlyReaderOperates ==
    /\ (resp'.op \in RecordDetailOps
          /\ \E r \in records : r.id = resp'.id /\ r.reader # resp'.user)
        => resp'.status \notin { 200, 204 } /\ records' = records
    /\ resp'.op \in RecordOps
        => \A r \in records : r \notin records' => r.reader = resp'.user

CreatedRowIsServerAssigned ==
    /\ (resp'.op = "record_create" /\ resp'.status = 201)
        => \E r \in records' :
              /\ records' = records \cup { r } /\ r \notin records
              /\ r.id = resp'.id
              /\ r.reader = resp'.user /\ r.book = resp'.pk
    /\ (resp'.op = "review_create" /\ resp'.status = 201)
        => \E r \in reviews' :
              /\ reviews' = reviews \cup { r } /\ r \notin reviews
              /\ r.id = resp'.id
              /\ r.reviewed_by = resp'.user /\ r.book = resp'.pk

\* C8: a created BookRecord or BookReview has the requester as its owner
\* and the book of the path as its book, whatever the body carried.
C8_OwnerAndBookAreServerAssigned == [][CreatedRowIsServerAssigned]_vars

C8_Witness ==
    /\ resp.op = "record_create" /\ resp.status = 201
    /\ resp.sent.owner # resp.user /\ resp.sent.book # resp.pk
    /\ \E r \in records :
          r.id = resp.id /\ r.reader = resp.user /\ r.book = resp.pk

\* definitions for C9
SameLetter(c, d) ==
    \/ c = d
    \/ { c, d } = { "a", "A" }
    \/ { c, d } = { "b", "B" }

MatchesIgnoringCase(title, term) ==
    \E off \in 0..(Len(title) - Len(term)) :
        \A k \in 1..Len(term) : SameLetter(title[off + k], term[k])

Listed(q) ==
    { b \in books : ~q.present \/ MatchesIgnoringCase(b.title, q.term) }

\* C9: the Book list with search=s holds exactly the books whose title
\* contains s whatever the case of the letters, in ascending title order;
\* without the parameter it holds every book in the same order.
C9_BookListSearchAndOrder ==
    (resp.op = "book_list" /\ resp.status = 200)
        => /\ Len(resp.data) = Cardinality(Listed(resp.q))
           /\ { resp.data[i] : i \in 1..Len(resp.data) } = Ids(Listed(resp.q))
           /\ \A i \in 1..(Len(resp.data) - 1) :
                 TitleLeq(BookById(resp.data[i]).title,
                          BookById(resp.data[i + 1]).title)

C9_Witness ==
    /\ resp.op = "book_list" /\ resp.status = 200
    /\ resp.q = Some(<<"a">>)
    /\ Len(resp.data) = 2
    /\ BookById(resp.data[1]).title = <<"A", "b">>
    /\ BookById(resp.data[2]).title = <<"a">>
    /\ Cardinality(books) = 2

\* definitions for C10
NestedCreates == { "record_create", "review_create", "favorite_create" }

MissingBookIsNotFound ==
    (resp'.op \in NestedCreates /\ Authenticated(resp') /\ ~BookExists(resp'.pk))
        => /\ resp'.status = 404
           /\ records' = records /\ reviews' = reviews
           /\ favorites' = favorites

====
